---- MODULE Spec2Model ----
(***************************************************************************)
(* Model of the prediction back-testing store of stock_analysis_cn         *)
(* (src/src/trading/backtesting.py, class Backtester).                     *)
(*                                                                         *)
(* The three SQLite tables are sequences of rows in rowid order; the       *)
(* AUTOINCREMENT id of a row is its index.  A nullable column holds <<>>   *)
(* for NULL and <<v>> for the value v.  Percent changes are integers       *)
(* (percent units); a percentile is carried multiplied by 100, so that     *)
(* the linear interpolation of numpy.percentile is exact.  A BOOLEAN       *)
(* column holds the truth value that was bound to it.                      *)
(***************************************************************************)
EXTENDS Integers, Sequences, FiniteSets, TLC

VARIABLES predictions, sector_performance, accuracy_stats, last_call, result,
          models, scalers, model_scores, feature_importance, calls, frames,
          model_files, is_running

\* the four per-sector dictionaries of SectorPredictionModel, the number of
\* train_sector_model calls begun (it names the objects a call creates), and
\* the local variables of the calls that are under way in a thread, and the
\* model files of the models directory
predictor_vars ==
    <<models, scalers, model_scores, feature_importance, calls, frames, model_files>>

\* is_running is the flag of RealtimeDataCollector (realtime_data.py:30)
vars == <<predictions, sector_performance, accuracy_stats, last_call, result,
          predictor_vars, is_running>>

(***************************************************************************)
(* Bounds of the model and the input domains of the calls.                 *)
(***************************************************************************)
MaxPredictions == 2
MaxPerformance == 2
MaxOutcomes == 3

Dates == {1, 2}
Sectors == {"A", "B"}
PredictedChanges == {-1, 0, 1}
ActualChanges == {-2, 2}
OutcomeChanges == {-2, -1, 0, 1, 2}
Confidences == {8}

\* the cohort of one date: five sectors, one realized change each
CohortSectors == {"A", "B", "C", "D", "E"}
CohortChanges == {5, 3, 1, -1, -3}

NULL == <<>>

\* what a call hands back to its caller: a returned value or a raised exception
Return(value) == [kind |-> "return", value |-> value]
Raise(exception) == [kind |-> "raise", exception |-> exception]
None == [kind |-> "None"]

\* SectorPredictionModel.__init__: four empty dictionaries
PredictorInit ==
    /\ models = <<>>
    /\ scalers = <<>>
    /\ model_scores = <<>>
    /\ feature_importance = <<>>
    /\ calls = 0
    /\ frames = <<>>
    /\ model_files = <<>>

(***************************************************************************)
(* Helpers: numpy.sign and numpy.percentile (default, linear method).      *)
(***************************************************************************)
Sign(x) == IF x > 0 THEN 1 ELSE IF x < 0 THEN -1 ELSE 0

RECURSIVE InsertSorted(_, _)
InsertSorted(x, s) ==
    IF s = <<>> THEN <<x>>
    ELSE IF x <= Head(s) THEN <<x>> \o s
    ELSE <<Head(s)>> \o InsertSorted(x, Tail(s))

RECURSIVE Sorted(_)
Sorted(s) == IF s = <<>> THEN <<>> ELSE InsertSorted(Head(s), Sorted(Tail(s)))

\* a percentile that takes the lower neighbour instead of interpolating
MutPercentileLower100(a, q) ==
    LET arr == Sorted(a)
        n == Len(arr)
        previous == (q * (n - 1)) \div 100
    IN  100 * arr[previous + 1]

\* 100 * numpy.percentile(a, q): virtual index q/100*(n-1) into the sorted
\* values, linear interpolation between the two neighbours
percentile100(a, q) ==
    LET arr == Sorted(a)
        n == Len(arr)
        virtual100 == q * (n - 1)
        previous == virtual100 \div 100
        next == IF previous + 1 > n - 1 THEN n - 1 ELSE previous + 1
        gamma100 == virtual100 % 100
    IN  100 * arr[previous + 1] + gamma100 * (arr[next + 1] - arr[previous + 1])

(***************************************************************************)
(* Schema (_create_tables): no table has a UNIQUE constraint besides the   *)
(* AUTOINCREMENT primary key, so a new row never conflicts with a stored   *)
(* one.                                                                    *)
(***************************************************************************)
sector_performance_conflict(old, new) == FALSE

\* INSERT INTO table: no constraint of the schema can reject the row
Insert(table, row) == Append(table, row)

\* INSERT OR REPLACE INTO sector_performance: deletes the rows that conflict
\* with the new one, then inserts it
InsertOrReplace(table, row) ==
    Append(SelectSeq(table, LAMBDA old : ~sector_performance_conflict(old, row)), row)

(***************************************************************************)
(* record_prediction                                                       *)
(***************************************************************************)
NewPrediction(date, sector, predicted_change, confidence) ==
    [date |-> date, sector |-> sector, predicted_change |-> predicted_change,
     confidence |-> confidence, actual_change |-> NULL, is_correct |-> NULL]

record_prediction(date, sector, predicted_change, confidence) ==
    /\ predictions' = Insert(predictions,
                             NewPrediction(date, sector, predicted_change, confidence))
    /\ last_call' = <<"record_prediction", date, sector, predicted_change, confidence>>
    /\ result' = None
    /\ UNCHANGED <<sector_performance, accuracy_stats, predictor_vars, is_running>>

(***************************************************************************)
(* update_actual_result                                                    *)
(***************************************************************************)
\* SELECT predicted_change FROM predictions WHERE date = ? AND sector = ?
\* followed by fetchone(): the row of lowest rowid, or None
fetchone_predicted_change(preds, date, sector) ==
    LET matching == SelectSeq(preds, LAMBDA r : r.date = date /\ r.sector = sector)
    IN  IF matching = <<>> THEN <<>> ELSE <<matching[1].predicted_change>>

_determine_direction_correct(actual_change, predicted_change_tuple) ==
    IF predicted_change_tuple = <<>> THEN FALSE
    ELSE LET predicted_change == predicted_change_tuple[1]
             actual_direction == Sign(actual_change)
             predicted_direction == Sign(predicted_change)
         IN  actual_direction = predicted_direction

\* a SET clause that leaves is_correct out
MutSetActualOnly(row, actual_change, is_correct) ==
    [row EXCEPT !.actual_change = <<actual_change>>]

\* the SET clause of the UPDATE, applied to one row
SetActualResult(row, actual_change, is_correct) ==
    [row EXCEPT !.actual_change = <<actual_change>>, !.is_correct = <<is_correct>>]

\* UPDATE predictions SET actual_change = ?, is_correct = ? WHERE date = ? AND sector = ?
\* with the is_correct parameter computed from the tuple fetched before
UpdatePredictionsWith(preds, date, sector, actual_change, predicted_change_tuple) ==
    LET is_correct == _determine_direction_correct(actual_change, predicted_change_tuple)
    IN  [i \in DOMAIN preds |->
            IF preds[i].date = date /\ preds[i].sector = sector
            THEN SetActualResult(preds[i], actual_change, is_correct)
            ELSE preds[i]]

\* the SELECT and the UPDATE running one right after the other
UpdatePredictions(preds, date, sector, actual_change) ==
    UpdatePredictionsWith(preds, date, sector, actual_change,
                          fetchone_predicted_change(preds, date, sector))

\* SELECT actual_change FROM sector_performance WHERE date = ?
all_changes(perf, date) ==
    LET rows == SelectSeq(perf, LAMBDA r : r.date = date)
    IN  [i \in 1..Len(rows) |-> rows[i].actual_change]

\* a top-gainer threshold that keeps the default until two values are stored
MutFallbackBelowTwo(changes_list) ==
    IF Len(changes_list) >= 2 THEN percentile100(changes_list, 75) ELSE 200

\* the two thresholds, multiplied by 100: percentiles of the stored values,
\* the defaults 2.0 and -2.0 when the SELECT returned no row
top_gainer_threshold100(changes_list) ==
    IF changes_list # <<>> THEN percentile100(changes_list, 75) ELSE 200

top_loser_threshold100(changes_list) ==
    IF changes_list # <<>> THEN percentile100(changes_list, 25) ELSE -200

NewPerformance(perf, date, sector, actual_change) ==
    LET changes_list == all_changes(perf, date)
        is_top_gainer == 100 * actual_change >= top_gainer_threshold100(changes_list)
        is_top_loser == 100 * actual_change <= top_loser_threshold100(changes_list)
    IN  [date |-> date, sector |-> sector, actual_change |-> actual_change,
         top_gainer |-> is_top_gainer, top_loser |-> is_top_loser]

\* a variant that re-evaluates the flags of the date's stored rows as well
MutRecomputeFlags(perf, date, sector, actual_change) ==
    LET new == NewPerformance(perf, date, sector, actual_change)
        changes_list == all_changes(Append(perf, new), date)
    IN  [i \in 1..(Len(perf) + 1) |->
            IF i = Len(perf) + 1 THEN new
            ELSE IF perf[i].date # date THEN perf[i]
            ELSE [perf[i] EXCEPT
                    !.top_gainer = 100 * perf[i].actual_change
                                     >= top_gainer_threshold100(changes_list),
                    !.top_loser = 100 * perf[i].actual_change
                                     <= top_loser_threshold100(changes_list)]]

\* INSERT OR REPLACE INTO sector_performance (...) VALUES (...)
UpdatePerformance(perf, date, sector, actual_change) ==
    InsertOrReplace(perf, NewPerformance(perf, date, sector, actual_change))

update_actual_result(date, sector, actual_change) ==
    /\ predictions' = UpdatePredictions(predictions, date, sector, actual_change)
    /\ sector_performance' =
           UpdatePerformance(sector_performance, date, sector, actual_change)
    /\ last_call' = <<"update_actual_result", date, sector, actual_change>>
    /\ result' = None
    /\ UNCHANGED <<accuracy_stats, predictor_vars, is_running>>

(***************************************************************************)
(* calculate_daily_accuracy and _save_accuracy_stats                       *)
(***************************************************************************)
predict_top_n == 3
predict_bottom_n == 3

\* a quotient num / den, kept exact
Fraction(num, den) == [num |-> num, den |-> den]

RECURSIVE SumSeq(_)
SumSeq(s) == IF s = <<>> THEN 0 ELSE Head(s) + SumSeq(Tail(s))

Abs(x) == IF x < 0 THEN -x ELSE x

\* SELECT * FROM predictions WHERE date = ? AND actual_change IS NOT NULL
resolved_of_date(preds, date) ==
    SelectSeq(preds, LAMBDA r : r.date = date /\ r.actual_change # NULL)

\* len(predictions[predictions['is_correct'] == True])
correct_count(rows) == Len(SelectSeq(rows, LAMBDA r : r.is_correct = <<TRUE>>))

\* twice predicted_change.rank(ascending=False) of row i: pandas gives tied
\* values the average of their positions
rank2_descending(rows, i) ==
    2 * Cardinality({j \in DOMAIN rows :
                        rows[j].predicted_change > rows[i].predicted_change})
      + Cardinality({j \in DOMAIN rows :
                        rows[j].predicted_change = rows[i].predicted_change}) + 1

rank2_ascending(rows, i) ==
    2 * Cardinality({j \in DOMAIN rows :
                        rows[j].predicted_change < rows[i].predicted_change})
      + Cardinality({j \in DOMAIN rows :
                        rows[j].predicted_change = rows[i].predicted_change}) + 1

actual_changes_of(rows) == [i \in DOMAIN rows |-> rows[i].actual_change[1]]

\* rows predicted to rise and ranked in the top predict_top_n
top_gainer_predictions(rows) ==
    {i \in DOMAIN rows : /\ rows[i].predicted_change > 0
                         /\ rank2_descending(rows, i) <= 2 * predict_top_n}

\* rows whose actual_change reaches the 0.75 quantile of the date's resolved
\* predictions (Series.quantile interpolates linearly, as numpy.percentile)
actual_top_gainers(rows) ==
    {i \in DOMAIN rows :
        100 * rows[i].actual_change[1] >= percentile100(actual_changes_of(rows), 75)}

top_gainer_accuracy(rows) ==
    LET predicted == top_gainer_predictions(rows)
        top_gainer_correct ==
            Cardinality({rows[i].sector : i \in predicted}
                          \cap {rows[i].sector : i \in actual_top_gainers(rows)})
    IN  IF predicted = {} THEN Fraction(0, 1)
        ELSE Fraction(top_gainer_correct, Cardinality(predicted))

top_loser_predictions(rows) ==
    {i \in DOMAIN rows : /\ rows[i].predicted_change < 0
                         /\ rank2_ascending(rows, i) <= 2 * predict_bottom_n}

actual_top_losers(rows) ==
    {i \in DOMAIN rows :
        100 * rows[i].actual_change[1] <= percentile100(actual_changes_of(rows), 25)}

top_loser_accuracy(rows) ==
    LET predicted == top_loser_predictions(rows)
        top_loser_correct ==
            Cardinality({rows[i].sector : i \in predicted}
                          \cap {rows[i].sector : i \in actual_top_losers(rows)})
    IN  IF predicted = {} THEN Fraction(0, 1)
        ELSE Fraction(top_loser_correct, Cardinality(predicted))

\* the accuracy_stats dictionary built from the date's resolved predictions
daily_accuracy_stats(rows, date) ==
    [date |-> date,
     total_predictions |-> Len(rows),
     correct_predictions |-> correct_count(rows),
     accuracy_rate |-> Fraction(correct_count(rows), Len(rows)),
     avg_confidence |-> Fraction(SumSeq([i \in DOMAIN rows |-> rows[i].confidence]),
                                 Len(rows)),
     top_gainer_accuracy |-> top_gainer_accuracy(rows),
     top_loser_accuracy |-> top_loser_accuracy(rows)]

\* a result for a date without resolved predictions that is filled with zeros
MutZeroFilledStats(date) ==
    [date |-> date, total_predictions |-> 0, correct_predictions |-> 0,
     accuracy_rate |-> Fraction(0, 1)]

\* the result for a date without resolved predictions
no_predictions_result(date) == [error |-> "no predictions found for the date"]

\* the columns of table accuracy_stats, and those the INSERT names
accuracy_stats_columns ==
    {"id", "date", "total_predictions", "correct_predictions", "accuracy_rate",
     "avg_confident", "top_gainer_accuracy", "top_loser_accuracy", "created_at"}

accuracy_stats_insert_columns ==
    {"date", "total_predictions", "correct_predictions", "accuracy_rate",
     "avg_confidence", "top_gainer_accuracy", "top_loser_accuracy"}

\* INSERT INTO accuracy_stats: sqlite3 raises OperationalError on a column the
\* table does not have
_save_accuracy_stats_raises ==
    ~(accuracy_stats_insert_columns \subseteq accuracy_stats_columns)

calculate_daily_accuracy(date) ==
    LET rows == resolved_of_date(predictions, date)
        stats == daily_accuracy_stats(rows, date)
    IN  /\ last_call' = <<"calculate_daily_accuracy", date>>
        /\ IF rows = <<>>
           THEN /\ result' = Return(no_predictions_result(date))
                /\ UNCHANGED accuracy_stats
           ELSE IF _save_accuracy_stats_raises
           THEN /\ result' = Raise("sqlite3.OperationalError")
                /\ UNCHANGED accuracy_stats
           ELSE /\ accuracy_stats' = Insert(accuracy_stats, stats)
                /\ result' = Return(stats)
        /\ UNCHANGED <<predictions, sector_performance, predictor_vars, is_running>>

(***************************************************************************)
(* get_sector_performance_report                                           *)
(***************************************************************************)
\* SELECT * FROM predictions WHERE sector = ? AND date BETWEEN ? AND ?
\* AND actual_change IS NOT NULL (the ORDER BY does not change an aggregate)
resolved_of_sector(preds, sector, start_date, end_date) ==
    SelectSeq(preds, LAMBDA r : /\ r.sector = sector
                                /\ start_date <= r.date
                                /\ r.date <= end_date
                                /\ r.actual_change # NULL)

positive_correct(rows) ==
    Len(SelectSeq(rows, LAMBDA r : r.predicted_change >= 0 /\ r.actual_change[1] >= 0))

negative_correct(rows) ==
    Len(SelectSeq(rows, LAMBDA r : r.predicted_change < 0 /\ r.actual_change[1] < 0))

positive_total(rows) == Len(SelectSeq(rows, LAMBDA r : r.predicted_change >= 0))

negative_total(rows) == Len(SelectSeq(rows, LAMBDA r : r.predicted_change < 0))

\* the report dictionary; rmse is carried squared
sector_report(rows, sector, start_date, end_date) ==
    [sector |-> sector,
     period |-> <<start_date, end_date>>,
     total_predictions |-> Len(rows),
     accuracy_rate |-> Fraction(correct_count(rows), Len(rows)),
     positive_accuracy |-> IF positive_total(rows) > 0
                           THEN Fraction(positive_correct(rows), positive_total(rows))
                           ELSE Fraction(0, 1),
     negative_accuracy |-> IF negative_total(rows) > 0
                           THEN Fraction(negative_correct(rows), negative_total(rows))
                           ELSE Fraction(0, 1),
     mae |-> Fraction(SumSeq([i \in DOMAIN rows |->
                 Abs(rows[i].predicted_change - rows[i].actual_change[1])]), Len(rows)),
     rmse_squared |-> Fraction(SumSeq([i \in DOMAIN rows |->
                 (rows[i].predicted_change - rows[i].actual_change[1])
                   * (rows[i].predicted_change - rows[i].actual_change[1])]), Len(rows)),
     avg_predicted_change |-> Fraction(SumSeq([i \in DOMAIN rows |->
                 rows[i].predicted_change]), Len(rows)),
     actual_change |-> Fraction(SumSeq(actual_changes_of(rows)), Len(rows)),
     confidence |-> Fraction(SumSeq([i \in DOMAIN rows |-> rows[i].confidence]),
                             Len(rows))]

\* the result for a sector without resolved predictions in the window
no_history_result(sector) == [error |-> "sector has no history"]

\* today is the date of datetime.now()
get_sector_performance_report(sector, days, today) ==
    LET end_date == today
        start_date == today - days
        rows == resolved_of_sector(predictions, sector, start_date, end_date)
    IN  /\ last_call' = <<"get_sector_performance_report", sector, days, today>>
        /\ result' = IF rows = <<>>
                     THEN Return(no_history_result(sector))
                     ELSE Return(sector_report(rows, sector, start_date, end_date))
        /\ UNCHANGED <<predictions, sector_performance, accuracy_stats, predictor_vars, is_running>>

(***************************************************************************)
(* SectorPredictionModel.train_sector_model                                *)
(***************************************************************************)
\* models_dict in declaration order
CandidateNames == <<"rf", "gbm", "xgb", "lightgbm">>

\* float('nan'), as the NULL of a table cell: <<>> against <<v>>
NaN == <<>>

\* model_scores in which every candidate has the same R2
EqualScores(r2) == [name \in {"rf", "gbm", "xgb", "lightgbm"} |-> [r2 |-> r2]]

\* dict[key] = value
Put(dict, key, value) ==
    [k \in DOMAIN dict \cup {key} |-> IF k = key THEN value ELSE dict[k]]

\* train_test_split(test_size=0.2): ceil(0.2 * n) test rows, the rest train
test_samples(n_rows) == (2 * n_rows + 9) \div 10

train_samples(n_rows) == n_rows - test_samples(n_rows)

\* StandardScaler.fit_transform refuses a matrix without rows or without
\* columns, train_test_split an empty training part: ValueError
fit_raises(n_rows, n_cols) ==
    n_rows = 0 \/ n_cols = 0 \/ train_samples(n_rows) = 0

\* r2_score of fewer than two test rows is nan, for every candidate alike
r2_defined(n_rows) == test_samples(n_rows) >= 2

\* a comparison that prefers the later of two equal scores
MutGreaterOrEqual(a, b) == a # NaN /\ b # NaN /\ a[1] >= b[1]

\* a > b on floats: False as soon as one side is nan
GreaterThan(a, b) == a # NaN /\ b # NaN /\ a[1] > b[1]

\* max(model_scores.keys(), key=lambda x: model_scores[x]['r2']): the first
\* key is kept until a later one compares greater
RECURSIVE max_by_r2(_, _, _)
max_by_r2(scores, i, best) ==
    IF i > Len(CandidateNames) THEN best
    ELSE max_by_r2(scores, i + 1,
                   IF GreaterThan(scores[CandidateNames[i]].r2, scores[best].r2)
                   THEN CandidateNames[i] ELSE best)

best_model_name(scores) == max_by_r2(scores, 2, CandidateNames[1])

\* the fitted estimator of a candidate: call names the training call that
\* created it, output the value its predict gives
FittedModel(name, call, output) == [name |-> name, call |-> call, output |-> output]

\* the fitted StandardScaler of a training call
FittedScaler(call, n_cols) == [call |-> call, n_features |-> n_cols]

\* dict(zip(feature_columns, best_model.feature_importances_))
FeatureImportance(name, call, n_cols) == [name |-> name, call |-> call, n_features |-> n_cols]

\* scores is model_scores of the loop: candidate name -> its test scores;
\* output is what the fitted best model predicts; targets_constant tells
\* whether all targets are equal, which the code does not look at
train_sector_model(sector, n_rows, n_cols, targets_constant, scores, output) ==
    LET call == calls + 1
        name == best_model_name(scores)
    IN  /\ last_call' = <<"train_sector_model", sector, n_rows, n_cols,
                          targets_constant, scores, output>>
        /\ calls' = call
        /\ IF fit_raises(n_rows, n_cols)
           THEN /\ result' = Raise("ValueError")
                /\ UNCHANGED <<models, scalers, model_scores, feature_importance, model_files, is_running>>
           ELSE /\ models' = Put(models, sector, FittedModel(name, call, output))
                /\ scalers' = Put(scalers, sector, FittedScaler(call, n_cols))
                /\ model_scores' = Put(model_scores, sector, scores[name])
                /\ feature_importance' =
                       Put(feature_importance, sector, FeatureImportance(name, call, n_cols))
                /\ result' = Return([best_model |-> name,
                                     scores |-> scores,
                                     feature_count |-> n_cols,
                                     training_samples |-> train_samples(n_rows),
                                     test_samples |-> test_samples(n_rows)])
        /\ UNCHANGED <<predictions, sector_performance, accuracy_stats, frames, model_files, is_running>>

(***************************************************************************)
(* predict_sector_performance, predict_all_sectors and the confidence      *)
(***************************************************************************)
\* a feature matrix: its shape and the number of its missing cells
Features(rows, cols, missing) == [rows |-> rows, cols |-> cols, missing |-> missing]

\* scaler.transform refuses a matrix without rows and one whose number of
\* columns is not the one it was fitted with: ValueError; a scaler that is
\* None (loaded from a file saved without one) has no transform:
\* AttributeError
transform_raises(scaler, features_df) ==
    \/ scaler = None
    \/ features_df.rows = 0
    \/ features_df.cols # scaler.n_features

\* the value predict_sector_performance returns from the model and scaler it
\* has read; the except branch turns every exception into 0.0
predict_with(model, scaler, features_df) ==
    IF transform_raises(scaler, features_df) \/ model = None THEN 0 ELSE model.output

\* the value predict_sector_performance of a predictor returns
predicted_value_of(predictor, sector, features_df) ==
    IF sector \notin DOMAIN predictor.models THEN 0
    ELSE IF sector \notin DOMAIN predictor.scalers THEN 0
    ELSE predict_with(predictor.models[sector], predictor.scalers[sector], features_df)

\* the value predict_sector_performance returns
predicted_value(sector, features_df) ==
    IF sector \notin DOMAIN models THEN 0
    ELSE predict_with(models[sector], scalers[sector], features_df)

predict_sector_performance(sector, features_df) ==
    /\ last_call' = <<"predict_sector_performance", sector, features_df>>
    /\ result' = Return(predicted_value(sector, features_df))
    /\ UNCHANGED <<predictions, sector_performance, accuracy_stats, predictor_vars, is_running>>

\* (1 - missing / total) * 0.8 + 0.2 as an exact quotient; a matrix without
\* cells gives 0 / 0, which numpy evaluates to nan
_calculate_prediction_confidence(features_df) ==
    LET total == features_df.cols * features_df.rows
    IN  IF total = 0 THEN Fraction(0, 0)
        ELSE Fraction(10 * total - 8 * features_df.missing, 10 * total)

\* the count of missing cells of a frame without columns is the sum of an
\* empty Series, which pandas may give as a plain int: int / 0 raises
confidence_may_raise(features_df) == features_df.cols = 0

\* the rows predict_all_sectors collects, in the order of all_features
prediction_rows(all_features) ==
    [i \in DOMAIN all_features |->
        [sector |-> all_features[i][1],
         predicted_change |-> predicted_value(all_features[i][1], all_features[i][2]),
         confidence |-> _calculate_prediction_confidence(all_features[i][2])]]

\* all_features is the dictionary as the sequence of its items; without an
\* item the DataFrame has no predicted_change column: KeyError
predict_all_outcomes(all_features) ==
    IF all_features = <<>> THEN {Raise("KeyError")}
    ELSE {Return(prediction_rows(all_features))}
           \cup (IF \E i \in DOMAIN all_features : confidence_may_raise(all_features[i][2])
                 THEN {Raise("ZeroDivisionError")} ELSE {})

predict_all_sectors(all_features) ==
    /\ last_call' = <<"predict_all_sectors", all_features>>
    /\ result' \in predict_all_outcomes(all_features)
    /\ UNCHANGED <<predictions, sector_performance, accuracy_stats, predictor_vars, is_running>>

(***************************************************************************)
(* train_sector_model and predict_sector_performance, statement by         *)
(* statement, for calls running in two threads                             *)
(***************************************************************************)
\* del dict[key]
Drop(dict, key) ==
    IF DOMAIN dict \ {key} = {} THEN <<>>
    ELSE [k \in DOMAIN dict \ {key} |-> dict[k]]

\* lines 202-249: everything up to the choice of best_model works on local
\* variables only
train_begin(sector, n_rows, n_cols, targets_constant, scores, output) ==
    LET call == calls + 1
        name == best_model_name(scores)
    IN  /\ "train" \notin DOMAIN frames
        /\ last_call' = <<"train_sector_model", sector, n_rows, n_cols,
                          targets_constant, scores, output>>
        /\ calls' = call
        /\ IF fit_raises(n_rows, n_cols)
           THEN /\ result' = Raise("ValueError")
                /\ UNCHANGED frames
           ELSE /\ frames' = Put(frames, "train",
                                 [pc |-> "store_model",
                                  sector |-> sector,
                                  best_model |-> FittedModel(name, call, output),
                                  scaler |-> FittedScaler(call, n_cols),
                                  scores |-> scores[name],
                                  importance |-> FeatureImportance(name, call, n_cols)])
                /\ UNCHANGED result
        /\ UNCHANGED <<predictions, sector_performance, accuracy_stats,
                       models, scalers, model_scores, feature_importance, model_files, is_running>>

\* line 252: self.models[sector] = best_model
train_store_model ==
    /\ "train" \in DOMAIN frames
    /\ frames["train"].pc = "store_model"
    /\ models' = Put(models, frames["train"].sector, frames["train"].best_model)
    /\ frames' = [frames EXCEPT !["train"].pc = "store_scaler"]
    /\ UNCHANGED <<predictions, sector_performance, accuracy_stats, last_call, result,
                   scalers, model_scores, feature_importance, calls, model_files, is_running>>

\* line 253: self.scalers[sector] = scaler
train_store_scaler ==
    /\ "train" \in DOMAIN frames
    /\ frames["train"].pc = "store_scaler"
    /\ scalers' = Put(scalers, frames["train"].sector, frames["train"].scaler)
    /\ frames' = [frames EXCEPT !["train"].pc = "store_scores"]
    /\ UNCHANGED <<predictions, sector_performance, accuracy_stats, last_call, result,
                   models, model_scores, feature_importance, calls, model_files, is_running>>

\* lines 254-268: the scores, the feature importance, and the return
train_store_rest ==
    /\ "train" \in DOMAIN frames
    /\ frames["train"].pc = "store_scores"
    /\ model_scores' = Put(model_scores, frames["train"].sector, frames["train"].scores)
    /\ feature_importance' =
           Put(feature_importance, frames["train"].sector, frames["train"].importance)
    /\ frames' = Drop(frames, "train")
    /\ UNCHANGED <<predictions, sector_performance, accuracy_stats, last_call, result,
                   models, scalers, calls, model_files, is_running>>

\* lines 288-290: the membership test
predict_begin(sector, features_df) ==
    /\ "predict" \notin DOMAIN frames
    /\ last_call' = <<"predict_sector_performance", sector, features_df>>
    /\ IF sector \notin DOMAIN models
       THEN /\ result' = Return(0)
            /\ UNCHANGED frames
       ELSE /\ frames' = Put(frames, "predict",
                             [pc |-> "read_model", sector |-> sector,
                              features_df |-> features_df])
            /\ UNCHANGED result
    /\ UNCHANGED <<predictions, sector_performance, accuracy_stats,
                   models, scalers, model_scores, feature_importance, calls, model_files, is_running>>

\* line 293: model = self.models[sector]
predict_read_model ==
    /\ "predict" \in DOMAIN frames
    /\ frames["predict"].pc = "read_model"
    /\ frames' = Put(frames, "predict",
                     [pc |-> "read_scaler",
                      sector |-> frames["predict"].sector,
                      features_df |-> frames["predict"].features_df,
                      model |-> models[frames["predict"].sector]])
    /\ UNCHANGED <<predictions, sector_performance, accuracy_stats, last_call, result,
                   models, scalers, model_scores, feature_importance, calls, model_files, is_running>>

\* line 294: scaler = self.scalers[sector]; a missing key raises KeyError,
\* which the except branch turns into 0.0
predict_read_scaler ==
    /\ "predict" \in DOMAIN frames
    /\ frames["predict"].pc = "read_scaler"
    /\ IF frames["predict"].sector \in DOMAIN scalers
       THEN /\ frames' = Put(frames, "predict",
                             [pc |-> "predict",
                              sector |-> frames["predict"].sector,
                              features_df |-> frames["predict"].features_df,
                              model |-> frames["predict"].model,
                              scaler |-> scalers[frames["predict"].sector]])
            /\ UNCHANGED result
       ELSE /\ frames' = Drop(frames, "predict")
            /\ result' = Return(0)
    /\ UNCHANGED <<predictions, sector_performance, accuracy_stats, last_call,
                   models, scalers, model_scores, feature_importance, calls, model_files, is_running>>

\* lines 296-312: transform, predict, return
predict_return ==
    /\ "predict" \in DOMAIN frames
    /\ frames["predict"].pc = "predict"
    /\ result' = Return(predict_with(frames["predict"].model, frames["predict"].scaler,
                                     frames["predict"].features_df))
    /\ frames' = Drop(frames, "predict")
    /\ UNCHANGED <<predictions, sector_performance, accuracy_stats, last_call,
                   models, scalers, model_scores, feature_importance, calls, model_files, is_running>>

(***************************************************************************)
(* record_prediction and update_actual_result called from several threads, *)
(* each call on a connection of its own.  sqlite3 begins the transaction    *)
(* at the first UPDATE or INSERT of a connection and lets one connection    *)
(* write at a time, so the statements from there to the commit take effect *)
(* as one step; a SELECT before them is a read of its own.                  *)
(***************************************************************************)
\* lines 82-90: INSERT and commit
store_record(t, date, sector, predicted_change, confidence) ==
    /\ t \notin DOMAIN frames
    /\ predictions' = Insert(predictions,
                             NewPrediction(date, sector, predicted_change, confidence))
    /\ frames' = Put(frames, t,
                     [pc |-> "done",
                      call |-> <<"record_prediction", date, sector,
                                 predicted_change, confidence>>])
    /\ last_call' = <<"record_prediction", date, sector, predicted_change, confidence>>
    /\ result' = None
    /\ UNCHANGED <<sector_performance, accuracy_stats,
                   models, scalers, model_scores, feature_importance, calls, model_files, is_running>>

\* line 110: the SELECT ... fetchone() that is evaluated as a parameter of
\* the UPDATE, before the UPDATE is executed
store_select(t, date, sector, actual_change) ==
    /\ t \notin DOMAIN frames
    /\ frames' = Put(frames, t,
                     [pc |-> "update",
                      call |-> <<"update_actual_result", date, sector, actual_change>>,
                      predicted_change_tuple |->
                          fetchone_predicted_change(predictions, date, sector)])
    /\ UNCHANGED <<predictions, sector_performance, accuracy_stats, last_call, result,
                   models, scalers, model_scores, feature_importance, calls, model_files, is_running>>

\* lines 106-133: the UPDATE, the SELECT of the date's changes, the INSERT
\* OR REPLACE and the commit
store_update(t) ==
    /\ t \in DOMAIN frames
    /\ frames[t].pc = "update"
    /\ predictions' = UpdatePredictionsWith(predictions, frames[t].call[2],
                          frames[t].call[3], frames[t].call[4],
                          frames[t].predicted_change_tuple)
    /\ sector_performance' = UpdatePerformance(sector_performance, frames[t].call[2],
                                               frames[t].call[3], frames[t].call[4])
    /\ frames' = Put(frames, t, [pc |-> "done", call |-> frames[t].call])
    /\ last_call' = frames[t].call
    /\ result' = None
    /\ UNCHANGED <<accuracy_stats, models, scalers, model_scores, feature_importance, calls, model_files, is_running>>

(***************************************************************************)
(* save_model and load_model                                               *)
(***************************************************************************)
\* dict.get(key): the value, or None
Get(dict, key) == IF key \in DOMAIN dict THEN <<dict[key]>> ELSE <<>>

\* a predictor object: its four dictionaries
Predictor(m, sc, ms, fi) ==
    [models |-> m, scalers |-> sc, model_scores |-> ms, feature_importance |-> fi]

\* SectorPredictionModel()
NewPredictor == Predictor(<<>>, <<>>, <<>>, <<>>)

\* the dictionary save_model builds for a sector
save_data_of(predictor, sector, now) ==
    [model |-> Get(predictor.models, sector),
     scaler |-> Get(predictor.scalers, sector),
     scores |-> Get(predictor.model_scores, sector),
     feature_importance |-> Get(predictor.feature_importance, sector),
     timestamp |-> <<now>>]

\* joblib.dump: the items of the dictionary, written one after the other
joblib_dump(data) ==
    <<<<"model", data.model>>, <<"scaler", data.scaler>>, <<"scores", data.scores>>,
      <<"feature_importance", data.feature_importance>>, <<"timestamp", data.timestamp>>>>

\* joblib.load: the dictionary of the items read
joblib_load(file) ==
    [key \in {file[i][1] : i \in DOMAIN file} |->
        file[CHOOSE i \in DOMAIN file : file[i][1] = key][2]]

\* the model file of a sector in settings.models_dir
model_path(sector) == sector

\* the agent's predictor as it is now
CurrentPredictor == Predictor(models, scalers, model_scores, feature_importance)

\* a value read from the file: None where None was saved
FromSaved(saved) == IF saved = <<>> THEN None ELSE saved[1]

\* a load that leaves the scaler of the store as it is
MutLoadWithoutScaler(predictor, sector, file) ==
    LET save_data == joblib_load(file)
    IN  Predictor(Put(predictor.models, sector, FromSaved(save_data.model)),
                  predictor.scalers,
                  Put(predictor.model_scores, sector, FromSaved(save_data.scores)),
                  Put(predictor.feature_importance, sector,
                      FromSaved(save_data.feature_importance)))

\* lines 380-385: the four assignments from the dictionary read
load_into(predictor, sector, file) ==
    LET save_data == joblib_load(file)
    IN  Predictor(Put(predictor.models, sector, FromSaved(save_data.model)),
                  Put(predictor.scalers, sector, FromSaved(save_data.scaler)),
                  Put(predictor.model_scores, sector, FromSaved(save_data.scores)),
                  Put(predictor.feature_importance, sector,
                      FromSaved(save_data.feature_importance)))

save_model(sector, now) ==
    /\ last_call' = <<"save_model", sector, now>>
    /\ model_files' = Put(model_files, model_path(sector),
                          joblib_dump(save_data_of(CurrentPredictor, sector, now)))
    /\ result' = None
    /\ UNCHANGED <<predictions, sector_performance, accuracy_stats,
                   models, scalers, model_scores, feature_importance, calls, frames, is_running>>

\* a missing file makes joblib.load raise; the except branch logs it
load_model(sector) ==
    LET loaded == load_into(CurrentPredictor, sector, model_files[model_path(sector)])
    IN  /\ last_call' = <<"load_model", sector>>
        /\ result' = None
        /\ IF model_path(sector) \notin DOMAIN model_files
           THEN UNCHANGED <<models, scalers, model_scores, feature_importance>>
           ELSE /\ models' = loaded.models
                /\ scalers' = loaded.scalers
                /\ model_scores' = loaded.model_scores
                /\ feature_importance' = loaded.feature_importance
        /\ UNCHANGED <<predictions, sector_performance, accuracy_stats,
                       calls, frames, model_files, is_running>>

\* a new SectorPredictionModel takes the place of the old one
new_predictor ==
    /\ last_call' = <<"SectorPredictionModel">>
    /\ result' = None
    /\ models' = <<>>
    /\ scalers' = <<>>
    /\ model_scores' = <<>>
    /\ feature_importance' = <<>>
    /\ UNCHANGED <<predictions, sector_performance, accuracy_stats,
                   calls, frames, model_files, is_running>>

(***************************************************************************)
(* prepare_features, prepare_sector_features, train_all_sector_samples and  *)
(* AStockTradingAgent._train_models                                        *)
(***************************************************************************)
\* historical_data is the dictionary as the sequence of its items
\* <<stock_code, number of rows of the series>>.  For a series with rows,
\* _extract_market_features reads its local variable features inside the
\* dictionary display that is to be assigned to it: UnboundLocalError.
_extract_market_features_raises(n_rows) == n_rows > 0

\* an empty series is skipped; the loop ends at the first series with rows
prepare_features(historical_data) ==
    IF \E i \in DOMAIN historical_data :
           /\ historical_data[i][2] > 0
           /\ _extract_market_features_raises(historical_data[i][2])
    THEN Raise("UnboundLocalError")
    ELSE Return([features_df |-> Features(0, 0, 0), targets_series |-> <<>>])

\* a call of prepare_features by itself
prepare_features_call(historical_data) ==
    /\ last_call' = <<"prepare_features", historical_data>>
    /\ result' = prepare_features(historical_data)
    /\ UNCHANGED <<predictions, sector_performance, accuracy_stats, predictor_vars, is_running>>

\* sectors_data is the sequence of the items <<sector, historical_data>>
prepare_sector_features(sectors_data) ==
    IF \E i \in DOMAIN sectors_data : prepare_features(sectors_data[i][2]).kind = "raise"
    THEN Raise("UnboundLocalError")
    ELSE Return([i \in DOMAIN sectors_data |->
                    <<sectors_data[i][1],
                      prepare_features(sectors_data[i][2]).value.features_df>>])

\* the scores of the loop in a batch: determined by the data, which is
\* not modelled further
batch_scores(n_rows) == IF r2_defined(n_rows) THEN EqualScores(<<1>>) ELSE EqualScores(NaN)

\* the dictionary train_sector_model returns
training_result(n_rows, n_cols, scores) ==
    [best_model |-> best_model_name(scores),
     scores |-> scores,
     feature_count |-> n_cols,
     training_samples |-> train_samples(n_rows),
     test_samples |-> test_samples(n_rows)]

\* the predictor after lines 252-258 of training call number call
predictor_after_training(predictor, sector, call, n_cols, scores, output) ==
    LET name == best_model_name(scores)
    IN  Predictor(Put(predictor.models, sector, FittedModel(name, call, output)),
                  Put(predictor.scalers, sector, FittedScaler(call, n_cols)),
                  Put(predictor.model_scores, sector, scores[name]),
                  Put(predictor.feature_importance, sector,
                      FeatureImportance(name, call, n_cols)))

\* the loop of train_all_sector_samples from item i on; run holds the local
\* predictor, training_results, the model files, the number of training
\* calls, and whether an exception has left the loop
RECURSIVE train_all_from(_, _, _, _)
train_all_from(all_features, i, now, run) ==
    IF i > Len(all_features) \/ run.raised THEN run
    ELSE LET sector == all_features[i][1]
             n_rows == all_features[i][2].rows
             n_cols == all_features[i][2].cols
             call == run.calls + 1
             scores == batch_scores(n_rows)
             trained == predictor_after_training(run.predictor, sector, call,
                                                 n_cols, scores, 1)
         IN  train_all_from(all_features, i + 1, now,
                 IF fit_raises(n_rows, n_cols)
                 THEN [run EXCEPT !.calls = call, !.raised = TRUE]
                 ELSE [predictor |-> trained,
                       training_results |-> Put(run.training_results, sector,
                                                training_result(n_rows, n_cols, scores)),
                       files |-> Put(run.files, model_path(sector),
                                     joblib_dump(save_data_of(trained, sector, now))),
                       calls |-> call,
                       raised |-> FALSE])

train_all_sector_samples(all_features, now) ==
    LET run == train_all_from(all_features, 1, now,
                   [predictor |-> NewPredictor, training_results |-> <<>>,
                    files |-> model_files, calls |-> calls, raised |-> FALSE])
    IN  /\ last_call' = <<"train_all_sector_samples", all_features, now>>
        /\ calls' = run.calls
        /\ model_files' = run.files
        /\ result' = IF run.raised THEN Raise("ValueError")
                     ELSE Return(run.training_results)
        /\ UNCHANGED <<predictions, sector_performance, accuracy_stats,
                       models, scalers, model_scores, feature_importance, frames, is_running>>

\* _train_models: prepare_sector_features runs before the loop and outside
\* its try; the features it can return are empty, and the loop skips a
\* sector with empty features
_train_models(sectors_data) ==
    /\ last_call' = <<"_train_models", sectors_data>>
    /\ result' = IF prepare_sector_features(sectors_data).kind = "raise"
                 THEN prepare_sector_features(sectors_data)
                 ELSE None
    /\ UNCHANGED <<predictions, sector_performance, accuracy_stats, predictor_vars, is_running>>

(***************************************************************************)
(* _calculate_direction_accuracy                                           *)
(***************************************************************************)
\* a score that counts the rows where the two values have a positive product
MutDirectionOfProduct(y_true, y_pred) ==
    Fraction(Cardinality({i \in DOMAIN y_true : y_true[i] * y_pred[i] > 0}), Len(y_true))

\* np.mean(np.sign(y_true) == np.sign(y_pred)): the mean of a boolean array
\* is the share of its True elements
_calculate_direction_accuracy(y_true, y_pred) ==
    Fraction(Cardinality({i \in DOMAIN y_true : Sign(y_true[i]) = Sign(y_pred[i])}),
             Len(y_true))

\* frames holds the arguments of the call that is to be made
direction_accuracy_call ==
    /\ "y_true" \in DOMAIN frames
    /\ last_call' = <<"_calculate_direction_accuracy", frames.y_true, frames.y_pred>>
    /\ result' = Return(_calculate_direction_accuracy(frames.y_true, frames.y_pred))
    /\ frames' = <<>>
    /\ UNCHANGED <<predictions, sector_performance, accuracy_stats,
                   models, scalers, model_scores, feature_importance, calls, model_files, is_running>>

(***************************************************************************)
(* RealtimeDataCollector._calculate_market_sentiment                       *)
(* avg_change_pct is carried multiplied by 10; the labels are, in the      *)
(* order of the branches: strong rise, mild rise, slight rise, strong      *)
(* fall, mild fall, slight fall, sideways                                  *)
(***************************************************************************)
\* rising_count / total_count if total_count > 0 else 0
rising_ratio(rising_count, total_count) ==
    IF total_count > 0 THEN Fraction(rising_count, total_count) ELSE Fraction(0, 1)

\* ratio > tenths / 10 and ratio < tenths / 10
RatioAbove(ratio, tenths) == 10 * ratio.num > tenths * ratio.den

RatioBelow(ratio, tenths) == 10 * ratio.num < tenths * ratio.den

_calculate_market_sentiment(avg_change_pct10, rising_count, total_count) ==
    LET ratio == rising_ratio(rising_count, total_count)
    IN  IF avg_change_pct10 > 20 /\ RatioAbove(ratio, 7) THEN "strong_rise"
        ELSE IF avg_change_pct10 > 10 /\ RatioAbove(ratio, 6) THEN "mild_rise"
        ELSE IF avg_change_pct10 > 0 /\ RatioAbove(ratio, 5) THEN "slight_rise"
        ELSE IF avg_change_pct10 < -20 /\ RatioBelow(ratio, 3) THEN "strong_fall"
        ELSE IF avg_change_pct10 < -10 /\ RatioBelow(ratio, 4) THEN "mild_fall"
        ELSE IF avg_change_pct10 < 0 /\ RatioBelow(ratio, 5) THEN "slight_fall"
        ELSE "sideways"

market_sentiment_call ==
    /\ "avg_change_pct10" \in DOMAIN frames
    /\ last_call' = <<"_calculate_market_sentiment", frames.avg_change_pct10,
                      frames.rising_count, frames.total_count>>
    /\ result' = Return(_calculate_market_sentiment(frames.avg_change_pct10,
                                                    frames.rising_count,
                                                    frames.total_count))
    /\ frames' = <<>>
    /\ UNCHANGED <<predictions, sector_performance, accuracy_stats,
                   models, scalers, model_scores, feature_importance, calls, model_files, is_running>>

(***************************************************************************)
(* RealtimeDataCollector.start_realtime_monitoring and                     *)
(* stop_realtime_monitoring.  frames holds one frame per monitoring thread *)
(* in the order of their start; a frame is at the loop's test ("while"),   *)
(* in its body up to the end of time.sleep ("sleep"), or past the loop     *)
(* ("done").                                                               *)
(***************************************************************************)
MaxStarts == 4

\* sets the flag and starts a new thread on monitoring_loop
start_realtime_monitoring ==
    /\ Len(frames) < MaxStarts
    /\ last_call' = <<"start_realtime_monitoring">>
    /\ result' = None
    /\ is_running' = TRUE
    /\ frames' = Append(frames, [pc |-> "while"])
    /\ UNCHANGED <<predictions, sector_performance, accuracy_stats,
                   models, scalers, model_scores, feature_importance, calls, model_files>>

stop_realtime_monitoring ==
    /\ last_call' = <<"stop_realtime_monitoring">>
    /\ result' = None
    /\ is_running' = FALSE
    /\ UNCHANGED <<predictions, sector_performance, accuracy_stats,
                   models, scalers, model_scores, feature_importance, calls, frames,
                   model_files>>

\* while self.is_running: of thread i
monitoring_loop_test(i) ==
    /\ i \in DOMAIN frames
    /\ frames[i].pc = "while"
    /\ frames' = [frames EXCEPT ![i].pc = IF is_running THEN "sleep" ELSE "done"]
    /\ UNCHANGED <<predictions, sector_performance, accuracy_stats, last_call, result,
                   models, scalers, model_scores, feature_importance, calls,
                   model_files, is_running>>

\* the body of the loop of thread i: the quotes are fetched and saved and
\* time.sleep returns, also after an exception
monitoring_loop_body(i) ==
    /\ i \in DOMAIN frames
    /\ frames[i].pc = "sleep"
    /\ frames' = [frames EXCEPT ![i].pc = "while"]
    /\ UNCHANGED <<predictions, sector_performance, accuracy_stats, last_call, result,
                   models, scalers, model_scores, feature_importance, calls,
                   model_files, is_running>>

\* the monitoring loops that have not ended
active_loops == {i \in DOMAIN frames : frames[i].pc # "done"}

(***************************************************************************)
(* Specifications                                                          *)
(***************************************************************************)
Init ==
    /\ predictions = <<>>
    /\ sector_performance = <<>>
    /\ accuracy_stats = <<>>
    /\ last_call = <<"__init__">>
    /\ result = None
    /\ PredictorInit
    /\ is_running = FALSE

Record ==
    \E date \in Dates, sector \in Sectors, predicted_change \in PredictedChanges,
       confidence \in Confidences :
        /\ Len(predictions) < MaxPredictions
        /\ record_prediction(date, sector, predicted_change, confidence)

Resolve ==
    \E date \in Dates, sector \in Sectors, actual_change \in ActualChanges :
        /\ Len(sector_performance) < MaxPerformance
        /\ update_actual_result(date, sector, actual_change)

Next == Record \/ Resolve

Spec == Init /\ [][Next]_vars

\* Outcomes only: one Pending prediction per sector of date 1 is on record,
\* then realized changes arrive.
InitOutcomes ==
    /\ predictions = <<NewPrediction(1, "A", 1, 8), NewPrediction(1, "B", -1, 8)>>
    /\ sector_performance = <<>>
    /\ accuracy_stats = <<>>
    /\ last_call = <<"record_prediction", 1, "B", -1, 8>>
    /\ result = None
    /\ PredictorInit
    /\ is_running = FALSE

ResolveOutcome ==
    \E date \in Dates, sector \in Sectors, actual_change \in OutcomeChanges :
        /\ Len(sector_performance) < MaxOutcomes
        /\ update_actual_result(date, sector, actual_change)

NextOutcomes == ResolveOutcome

SpecOutcomes == InitOutcomes /\ [][NextOutcomes]_vars

\* The cohort: five sectors of date 1 are recorded, then each is resolved
\* once, the five changes 5, 3, 1, -1, -3 arriving in any order.
InitCohort ==
    /\ predictions = <<NewPrediction(1, "A", 1, 8), NewPrediction(1, "B", 1, 8),
                       NewPrediction(1, "C", 1, 8), NewPrediction(1, "D", 1, 8),
                       NewPrediction(1, "E", 1, 8)>>
    /\ sector_performance = <<>>
    /\ accuracy_stats = <<>>
    /\ last_call = <<"record_prediction", 1, "E", 1, 8>>
    /\ result = None
    /\ PredictorInit
    /\ is_running = FALSE

ResolveCohort ==
    \E sector \in CohortSectors, actual_change \in CohortChanges :
        /\ \A i \in DOMAIN sector_performance :
               /\ sector_performance[i].sector # sector
               /\ sector_performance[i].actual_change # actual_change
        /\ update_actual_result(1, sector, actual_change)

NextCohort == ResolveCohort

SpecCohort == InitCohort /\ [][NextCohort]_vars

\* Accuracy: three predictions are on record (two for date 1, one for date
\* 2); realized changes arrive and the accuracy of a date and the report of
\* a sector are asked for at any time.
ReportDays == {0, 1}

InitAccuracy ==
    /\ predictions = <<NewPrediction(1, "A", 1, 8), NewPrediction(1, "B", -1, 6),
                       NewPrediction(2, "A", 0, 8)>>
    /\ sector_performance = <<>>
    /\ accuracy_stats = <<>>
    /\ last_call = <<"record_prediction", 2, "A", 0, 8>>
    /\ result = None
    /\ PredictorInit
    /\ is_running = FALSE

ResolveAccuracy ==
    \E date \in Dates, sector \in Sectors, actual_change \in ActualChanges :
        /\ Len(sector_performance) < MaxPerformance
        /\ update_actual_result(date, sector, actual_change)

CalculateAccuracy == \E date \in Dates : calculate_daily_accuracy(date)

SectorReport ==
    \E sector \in Sectors, days \in ReportDays, today \in Dates :
        get_sector_performance_report(sector, days, today)

NextAccuracy == ResolveAccuracy \/ CalculateAccuracy \/ SectorReport

SpecAccuracy == InitAccuracy /\ [][NextAccuracy]_vars

\* Prediction: sectors are trained on ten rows of two columns, and single
\* and batch predictions are asked for with feature matrices of every small
\* shape.
MaxTrainCalls == 2
PredictionValues == {0, 1}
FeatureShapes ==
    {f \in [rows : 0..1, cols : {0, 2}, missing : 0..2] : f.missing <= f.rows * f.cols}

\* the items of a dictionary with at most two keys, in insertion order
FeatureDicts ==
    {<<>>}
      \cup {<<<<s, f>>>> : s \in Sectors, f \in FeatureShapes}
      \cup {d \in {<<<<s, f>>, <<t, g>>>> :
                      s \in Sectors, t \in Sectors, f \in FeatureShapes, g \in FeatureShapes} :
               d[1][1] # d[2][1]}

TrainForPrediction ==
    \E sector \in Sectors, output \in PredictionValues :
        /\ calls < MaxTrainCalls
        /\ train_sector_model(sector, 10, 2, FALSE, EqualScores(<<1>>), output)

Predict ==
    \E sector \in Sectors, features_df \in FeatureShapes :
        predict_sector_performance(sector, features_df)

PredictAll == \E all_features \in FeatureDicts : predict_all_sectors(all_features)

NextPredict == TrainForPrediction \/ Predict \/ PredictAll

SpecPredict == Init /\ [][NextPredict]_vars

\* Training: sectors are trained and retrained on data of every small
\* shape, with every combination of test scores of the four candidates.
R2Scores == {0, 1}
TrainShapes == {<<0, 2>>, <<1, 2>>, <<5, 2>>, <<10, 2>>, <<10, 0>>}

\* the model_scores the loop can produce on n_rows rows
ScoreDicts(n_rows) ==
    IF r2_defined(n_rows)
    THEN [{"rf", "gbm", "xgb", "lightgbm"} -> [r2 : {<<v>> : v \in R2Scores}]]
    ELSE {EqualScores(NaN)}

Train ==
    \E sector \in Sectors, shape \in TrainShapes, targets_constant \in BOOLEAN :
        \E scores \in ScoreDicts(shape[1]) :
            /\ calls < MaxTrainCalls
            /\ train_sector_model(sector, shape[1], shape[2], targets_constant, scores, 1)

NextTrain == Train

SpecTrain == Init /\ [][NextTrain]_vars

\* Concurrency: one thread trains sectors while another one predicts; the
\* interpreter may switch threads between any two statements.
TrainBegin ==
    \E sector \in Sectors, shape \in {<<1, 2>>, <<10, 2>>}, output \in PredictionValues :
        /\ calls < MaxTrainCalls
        /\ train_begin(sector, shape[1], shape[2], FALSE, EqualScores(<<1>>), output)

PredictBegin == \E sector \in Sectors : predict_begin(sector, Features(1, 2, 0))

NextConcurrent ==
    \/ TrainBegin
    \/ train_store_model
    \/ train_store_scaler
    \/ train_store_rest
    \/ PredictBegin
    \/ predict_read_model
    \/ predict_read_scaler
    \/ predict_return

SpecConcurrent == Init /\ [][NextConcurrent]_vars

\* Store: two threads make one call each, a record or a resolve for date 1.
Threads == {"t1", "t2"}

StoreRecord ==
    \E t \in Threads, sector \in Sectors, predicted_change \in {-1, 1} :
        store_record(t, 1, sector, predicted_change, 8)

StoreSelect ==
    \E t \in Threads, sector \in Sectors, actual_change \in ActualChanges :
        store_select(t, 1, sector, actual_change)

StoreUpdate == \E t \in Threads : store_update(t)

NextStore == StoreRecord \/ StoreSelect \/ StoreUpdate

SpecStore == Init /\ [][NextStore]_vars

\* Batches: the features of at most two sectors are trained in one call,
\* and the agent's training is called on the series of at most two sectors.
BatchShapes == {Features(1, 2, 0), Features(10, 2, 0), Features(10, 0, 0)}

BatchFeatures ==
    {<<>>}
      \cup {<<<<s, f>>>> : s \in Sectors, f \in BatchShapes}
      \cup {d \in {<<<<s, f>>, <<t, g>>>> :
                      s \in Sectors, t \in Sectors, f \in BatchShapes, g \in BatchShapes} :
               d[1][1] # d[2][1]}

\* a sector with one instrument, whose series has 0 or 3 rows
SectorsData ==
    {<<<<s, <<<<"600000", n>>>>>>>> : s \in Sectors, n \in {0, 3}}
      \cup {d \in {<<<<s, <<<<"600000", n>>>>>>, <<t, <<<<"600001", m>>>>>>>> :
                      s \in Sectors, t \in Sectors, n \in {0, 3}, m \in {0, 3}} :
               d[1][1] # d[2][1]}

TrainAll ==
    \E all_features \in BatchFeatures, now \in Dates :
        /\ calls + Len(all_features) <= MaxTrainCalls
        /\ train_all_sector_samples(all_features, now)

TrainModels == \E sectors_data \in SectorsData : _train_models(sectors_data)

\* at most two instruments, each with a series of 0 or 3 rows
HistoricalData ==
    {<<>>}
      \cup {<<<<"600000", n>>>> : n \in {0, 3}}
      \cup {<<<<"600000", n>>, <<"600001", m>>>> : n \in {0, 3}, m \in {0, 3}}

PrepareFeatures ==
    \E historical_data \in HistoricalData : prepare_features_call(historical_data)

NextBatch == TrainAll \/ TrainModels \/ PrepareFeatures

SpecBatch == Init /\ [][NextBatch]_vars

\* Persistence: sectors are trained, saved, and loaded again, into the same
\* predictor or into a new one.
TrainForSaving ==
    \E sector \in Sectors, output \in PredictionValues, r2 \in R2Scores :
        /\ calls < MaxTrainCalls
        /\ train_sector_model(sector, 10, 2, FALSE, EqualScores(<<r2>>), output)

Save == \E sector \in Sectors, now \in Dates : save_model(sector, now)

Load == \E sector \in Sectors : load_model(sector)

NextPersist == TrainForSaving \/ Save \/ Load \/ new_predictor

SpecPersist == Init /\ [][NextPersist]_vars

\* Direction accuracy: the score of every pair of series of 1, 2 or 4 rows.
DirectionValues == {-1, 0, 1, 2}
TestRows == {1, 2, 4}

InitDirection ==
    /\ predictions = <<>>
    /\ sector_performance = <<>>
    /\ accuracy_stats = <<>>
    /\ last_call = <<"__init__">>
    /\ result = None
    /\ models = <<>>
    /\ scalers = <<>>
    /\ model_scores = <<>>
    /\ feature_importance = <<>>
    /\ calls = 0
    /\ model_files = <<>>
    /\ is_running = FALSE
    /\ \E n \in TestRows :
           \E y_true \in [1..n -> DirectionValues], y_pred \in [1..n -> DirectionValues] :
               frames = [y_true |-> y_true, y_pred |-> y_pred]

NextDirection == direction_accuracy_call

SpecDirection == InitDirection /\ [][NextDirection]_vars

\* Market sentiment: every average change from -2.5 to 2.5 in steps of 0.5,
\* with every number of rising sectors out of 0 or 10.
AvgChanges10 == {-25, -20, -15, -10, -5, 0, 5, 10, 15, 20, 25}
TotalCounts == {0, 10}

InitSentiment ==
    /\ predictions = <<>>
    /\ sector_performance = <<>>
    /\ accuracy_stats = <<>>
    /\ last_call = <<"__init__">>
    /\ result = None
    /\ models = <<>>
    /\ scalers = <<>>
    /\ model_scores = <<>>
    /\ feature_importance = <<>>
    /\ calls = 0
    /\ model_files = <<>>
    /\ is_running = FALSE
    /\ \E avg_change_pct10 \in AvgChanges10, total_count \in TotalCounts :
           \E rising_count \in 0..total_count :
               frames = [avg_change_pct10 |-> avg_change_pct10,
                         rising_count |-> rising_count, total_count |-> total_count]

NextSentiment == market_sentiment_call

SpecSentiment == InitSentiment /\ [][NextSentiment]_vars

\* Monitoring: the collector is started and stopped in any order while its
\* monitoring threads run.
StartMonitoring == start_realtime_monitoring

StopMonitoring == stop_realtime_monitoring

LoopTest == \E i \in 1..MaxStarts : monitoring_loop_test(i)

LoopBody == \E i \in 1..MaxStarts : monitoring_loop_body(i)

NextMonitor == StartMonitoring \/ StopMonitoring \/ LoopTest \/ LoopBody

SpecMonitor == Init /\ [][NextMonitor]_vars

\* every started thread is scheduled again and again, and time.sleep returns
FairMonitor ==
    \A i \in 1..MaxStarts :
        WF_vars(monitoring_loop_test(i)) /\ WF_vars(monitoring_loop_body(i))

FairSpecMonitor == SpecMonitor /\ FairMonitor

(***************************************************************************)
(* Properties                                                              *)
(***************************************************************************)
Range(f) == {f[i] : i \in DOMAIN f}

IsResolveCall(call) == call[1] = "update_actual_result"

HasPending(preds, date, sector) ==
    \E i \in DOMAIN preds :
        /\ preds[i].date = date
        /\ preds[i].sector = sector
        /\ preds[i].actual_change = NULL

\* the k-th smallest of the values, by counting
OrderStat(vals, k) ==
    CHOOSE v \in Range(vals) :
        /\ Cardinality({i \in DOMAIN vals : vals[i] < v}) < k
        /\ Cardinality({i \in DOMAIN vals : vals[i] <= v}) >= k

\* 100 * the q-th percentile of the values, linear interpolation between the
\* closest ranks (position q/100 * (n - 1), ranks counted from 0)
LinearPercentile100(vals, q) ==
    LET n == Len(vals)
        lo == (q * (n - 1)) \div 100 + 1
        hi == IF lo < n THEN lo + 1 ELSE n
    IN  100 * OrderStat(vals, lo)
          + ((q * (n - 1)) % 100) * (OrderStat(vals, hi) - OrderStat(vals, lo))

\* the values stored for the date in the rows before row k
ChangesBefore(perf, date, k) == all_changes(SubSeq(perf, 1, k - 1), date)

\* C1: every predictions row whose actual_change is set has is_correct equal
\* to (sign(actual_change) = sign(the row's own predicted_change)), sign
\* being three-valued.
C1_DirectionOfOwnRow ==
    \A i \in DOMAIN predictions :
        predictions[i].actual_change # NULL =>
            predictions[i].is_correct =
                <<Sign(predictions[i].actual_change[1])
                    = Sign(predictions[i].predicted_change)>>

\* C2: the predictions store holds at most one record per (date, sector).
C2_OnePredictionPerPair ==
    \A i, j \in DOMAIN predictions :
        (predictions[i].date = predictions[j].date
            /\ predictions[i].sector = predictions[j].sector) => i = j

\* C3: Resolved is terminal: no step changes the actual_change or the
\* is_correct of a predictions row that is already resolved.
C3_ResolvedIsTerminal ==
    [][\A i \in DOMAIN predictions :
           predictions[i].actual_change # NULL =>
               /\ predictions'[i].actual_change = predictions[i].actual_change
               /\ predictions'[i].is_correct = predictions[i].is_correct]_vars

\* C4: a resolve call that repeats the call just made, with the same date,
\* sector and actual_change, leaves the predictions rows and the set of
\* sector_performance rows (with their flags) as they were.
C4_ReplayIdempotent ==
    [][(IsResolveCall(last_call) /\ last_call' = last_call) =>
           /\ predictions' = predictions
           /\ Range(sector_performance') = Range(sector_performance)]_vars

\* C5: a predictions row has is_correct set if and only if its actual_change
\* is set, and the row a record call has just created has both absent.
C5_CorrectIffActual ==
    /\ \A i \in DOMAIN predictions :
           (predictions[i].is_correct # NULL) <=> (predictions[i].actual_change # NULL)
    /\ last_call[1] = "record_prediction" =>
           /\ predictions[Len(predictions)].actual_change = NULL
           /\ predictions[Len(predictions)].is_correct = NULL

C5_Witness ==
    /\ \E i \in DOMAIN predictions :
           /\ predictions[i].actual_change # NULL
           /\ predictions[i].is_correct # NULL
    /\ \E i \in DOMAIN predictions :
           /\ predictions[i].actual_change = NULL
           /\ predictions[i].is_correct = NULL
    /\ IsResolveCall(last_call)

\* C6: a resolve call made when no Pending record exists for (date, sector)
\* changes none of predictions, sector_performance and accuracy_stats.
C6_NoPendingIsNoOp ==
    [][(IsResolveCall(last_call')
           /\ ~HasPending(predictions, last_call'[2], last_call'[3])) =>
           UNCHANGED <<predictions, sector_performance, accuracy_stats, model_files, is_running>>]_vars

\* C7: sector_performance holds at most one record per (date, sector).
C7_OnePerformancePerPair ==
    \A i, j \in DOMAIN sector_performance :
        (sector_performance[i].date = sector_performance[j].date
            /\ sector_performance[i].sector = sector_performance[j].sector) => i = j

\* the flags a resolve stores, given the cutoffs (multiplied by 100)
FlagsMatch(row, high100, low100) ==
    /\ row.top_gainer = (100 * row.actual_change >= high100)
    /\ row.top_loser = (100 * row.actual_change <= low100)

\* C8 as stated: each stored row carries the flags of the 75th/25th
\* percentile of the values stored for its date before it, except that the
\* cutoffs are +2 and -2 when fewer than 2 sectors had reported for the date.
C8_CutoffsFewerThanTwo ==
    \A k \in DOMAIN sector_performance :
        LET row == sector_performance[k]
            before == SubSeq(sector_performance, 1, k - 1)
            vals == all_changes(before, row.date)
            reported == {before[i].sector : i \in {j \in DOMAIN before :
                                                     before[j].date = row.date}}
        IN  IF Cardinality(reported) < 2
            THEN FlagsMatch(row, 200, -200)
            ELSE FlagsMatch(row, LinearPercentile100(vals, 75),
                                 LinearPercentile100(vals, 25))

\* C8 amended: each stored row carries the flags of the 75th/25th percentile
\* of the values stored for its date before it, except that the cutoffs are
\* +2 and -2 when no value was stored for the date yet.
C8_CutoffsOfStoredValues ==
    \A k \in DOMAIN sector_performance :
        LET row == sector_performance[k]
            vals == ChangesBefore(sector_performance, row.date, k)
        IN  IF vals = <<>>
            THEN FlagsMatch(row, 200, -200)
            ELSE FlagsMatch(row, LinearPercentile100(vals, 75),
                                 LinearPercentile100(vals, 25))

\* a third outcome of a date is flagged against cutoffs interpolated between
\* two different stored values, and a first outcome against +2
C8_Witness ==
    /\ Len(sector_performance) = 3
    /\ \A i \in 1..3 : sector_performance[i].date = 1
    /\ sector_performance[1].actual_change = 2
    /\ sector_performance[1].top_gainer
    /\ sector_performance[2].actual_change = 0
    /\ sector_performance[3].actual_change = 1
    /\ ~sector_performance[3].top_gainer
    /\ ~sector_performance[3].top_loser

CohortResolved ==
    /\ Len(sector_performance) = 5
    /\ \A i \in DOMAIN predictions : predictions[i].actual_change # NULL

\* C9 as stated: once the five sectors are resolved, the cutoffs of the
\* cohort are 3 and -1 and a sector is flagged top gainer iff its change is
\* >= 3 and top loser iff its change is <= -1.
C9_CohortFlagsConsistent ==
    CohortResolved =>
        /\ percentile100(all_changes(sector_performance, 1), 75) = 300
        /\ percentile100(all_changes(sector_performance, 1), 25) = -100
        /\ \A i \in DOMAIN sector_performance :
               FlagsMatch(sector_performance[i], 300, -100)

\* C9 amended: once the five sectors are resolved, the cutoffs of the cohort
\* are 3 and -1; the flags stored for a sector are those of the cutoffs in
\* force when it was resolved (+2 and -2 for the first sector, the
\* percentiles of the changes stored before it for the others).
C9_CohortCutoffs ==
    CohortResolved =>
        /\ percentile100(all_changes(sector_performance, 1), 75) = 300
        /\ percentile100(all_changes(sector_performance, 1), 25) = -100
        /\ \A k \in DOMAIN sector_performance :
               LET row == sector_performance[k]
                   vals == ChangesBefore(sector_performance, 1, k)
               IN  IF vals = <<>>
                   THEN FlagsMatch(row, 200, -200)
                   ELSE FlagsMatch(row, LinearPercentile100(vals, 75),
                                        LinearPercentile100(vals, 25))

\* the cohort resolved in the order 5, 3, 1, -1, -3: the sector with change
\* 3 is stored as a top loser
C9_Witness ==
    /\ CohortResolved
    /\ sector_performance[1].actual_change = 5
    /\ sector_performance[2].actual_change = 3
    /\ sector_performance[2].top_loser
    /\ ~sector_performance[2].top_gainer

\* C10: a resolve call for (date, sector) leaves the stored
\* sector_performance record of every other sector and of every other date
\* as it was.
C10_OtherRecordsUntouched ==
    [][IsResolveCall(last_call') =>
           \A i \in DOMAIN sector_performance :
               (sector_performance[i].date # last_call'[2]
                   \/ sector_performance[i].sector # last_call'[3]) =>
                   /\ i \in DOMAIN sector_performance'
                   /\ sector_performance'[i] = sector_performance[i]]_vars

\* two sectors of one date are stored, and the flags of the first are not
\* those the cutoffs of the date's stored values would give now
C10_Witness ==
    /\ Len(sector_performance) = 2
    /\ sector_performance[1].date = sector_performance[2].date
    /\ sector_performance[1].sector # sector_performance[2].sector
    /\ ~FlagsMatch(sector_performance[1],
                   LinearPercentile100(all_changes(sector_performance,
                                                   sector_performance[1].date), 75),
                   LinearPercentile100(all_changes(sector_performance,
                                                   sector_performance[1].date), 25))

IsAccuracyCall(call) == call[1] = "calculate_daily_accuracy"

IsReportCall(call) == call[1] = "get_sector_performance_report"

\* C11: a calculate_daily_accuracy call on a date with a Resolved prediction
\* returns the number of the date's Resolved predictions as
\* total_predictions, the number of them with is_correct true as
\* correct_predictions, and their quotient as accuracy_rate.
C11_DailyAccuracyReturned ==
    (IsAccuracyCall(last_call) /\ resolved_of_date(predictions, last_call[2]) # <<>>) =>
        LET rows == resolved_of_date(predictions, last_call[2])
        IN  /\ result.kind = "return"
            /\ result.value.total_predictions = Len(rows)
            /\ result.value.correct_predictions = correct_count(rows)
            /\ result.value.accuracy_rate = Fraction(correct_count(rows), Len(rows))

\* C12: every calculate_daily_accuracy call on a date with a Resolved
\* prediction appends exactly one accuracy_stats row and leaves the rows
\* already stored as they were.
C12_EachCallAppendsOneRow ==
    [][(IsAccuracyCall(last_call')
          /\ resolved_of_date(predictions, last_call'[2]) # <<>>) =>
           /\ Len(accuracy_stats') = Len(accuracy_stats) + 1
           /\ SubSeq(accuracy_stats', 1, Len(accuracy_stats)) = accuracy_stats]_vars

\* C13: a calculate_daily_accuracy call on a date without a Resolved
\* prediction, and a get_sector_performance_report call on a sector without
\* a Resolved prediction in the window, return a result whose only field is
\* error, and no accuracy_stats row is appended.
C13_NoDataIsExplicitError ==
    [][/\ (IsAccuracyCall(last_call')
             /\ resolved_of_date(predictions, last_call'[2]) = <<>>) =>
              /\ result'.kind = "return"
              /\ DOMAIN result'.value = {"error"}
              /\ accuracy_stats' = accuracy_stats
       /\ (IsReportCall(last_call')
             /\ resolved_of_sector(predictions, last_call'[2],
                                   last_call'[4] - last_call'[3], last_call'[4]) = <<>>) =>
              /\ result'.kind = "return"
              /\ DOMAIN result'.value = {"error"}
              /\ accuracy_stats' = accuracy_stats]_vars

\* the accuracy of date 2 was asked for while only date 1 has Resolved
\* predictions, and the answer is the error result
C13_Witness ==
    /\ last_call = <<"calculate_daily_accuracy", 2>>
    /\ resolved_of_date(predictions, 1) # <<>>
    /\ resolved_of_date(predictions, 2) = <<>>
    /\ result.kind = "return"
    /\ "error" \in DOMAIN result.value

\* the sectors of a date whose stored sector_performance row carries the flag
StoredTopGainers(perf, date) ==
    {perf[i].sector : i \in {j \in DOMAIN perf : perf[j].date = date /\ perf[j].top_gainer}}

StoredTopLosers(perf, date) ==
    {perf[i].sector : i \in {j \in DOMAIN perf : perf[j].date = date /\ perf[j].top_loser}}

\* C14: the top_gainer_accuracy a calculate_daily_accuracy call computes is
\* the share of the predicted top gainers whose stored sector_performance
\* row has is_top_gainer true, and the top_loser_accuracy the share of the
\* predicted top losers whose stored row has is_top_loser true.
C14_TopAccuracyFromStoredFlags ==
    (IsAccuracyCall(last_call) /\ resolved_of_date(predictions, last_call[2]) # <<>>) =>
        LET date == last_call[2]
            rows == resolved_of_date(predictions, date)
            P == {rows[i].sector : i \in top_gainer_predictions(rows)}
            Q == {rows[i].sector : i \in top_loser_predictions(rows)}
            stats == daily_accuracy_stats(rows, date)
        IN  /\ P # {} =>
                   stats.top_gainer_accuracy.num * Cardinality(P)
                     = Cardinality(P \cap StoredTopGainers(sector_performance, date))
                         * stats.top_gainer_accuracy.den
            /\ Q # {} =>
                   stats.top_loser_accuracy.num * Cardinality(Q)
                     = Cardinality(Q \cap StoredTopLosers(sector_performance, date))
                         * stats.top_loser_accuracy.den

IsPredictCall(call) == call[1] = "predict_sector_performance"

IsPredictAllCall(call) == call[1] = "predict_all_sectors"

\* C15: a prediction asked for a sector without a trained model ends in a
\* result the caller can tell from every numeric prediction, 0.0 included.
C15_UntrainedIsNotANumber ==
    (IsPredictCall(last_call) /\ last_call[2] \notin DOMAIN models) =>
        \A value \in PredictionValues : result # Return(value)

\* C16: predict_all_sectors handles every sector on its own - a sector with
\* a model gets the prediction a single call gives, whatever happens to the
\* others - and a sector whose prediction failed is reported by name as
\* failed, not as a row with a predicted value and a confidence.
C16_FailedSectorReportedAsFailed ==
    (IsPredictAllCall(last_call) /\ result.kind = "return") =>
        \A i \in DOMAIN last_call[2] :
            LET sector == last_call[2][i][1]
                row == result.value[i]
            IN  /\ row.sector = sector
                /\ IF sector \in DOMAIN models
                      /\ ~transform_raises(scalers[sector], last_call[2][i][2])
                   THEN row.predicted_change = models[sector].output
                   ELSE "predicted_change" \notin DOMAIN row

\* C17: the confidence of every feature matrix, one without rows or without
\* columns included, is 0.2 + 0.8 * (1 - missing / total): at least 0.2, at
\* most 1.0, exactly 0.2 with every cell missing and exactly 1.0 with none.
C17_ConfidenceInRange ==
    IsPredictAllCall(last_call) =>
        /\ last_call[2] # <<>> => result.kind = "return"
        /\ result.kind = "return" =>
               \A i \in DOMAIN last_call[2] :
                   LET features_df == last_call[2][i][2]
                       total == features_df.rows * features_df.cols
                       confidence == result.value[i].confidence
                   IN  /\ confidence.den > 0
                       /\ 5 * confidence.num >= confidence.den
                       /\ confidence.num <= confidence.den
                       /\ 10 * total * confidence.num
                            = (10 * total - 8 * features_df.missing) * confidence.den
                       /\ features_df.missing = total => 5 * confidence.num = confidence.den
                       /\ features_df.missing = 0 => confidence.num = confidence.den

IsTrainCall(call) == call[1] = "train_sector_model"

\* candidate n scored above candidate m
Higher(scores, n, m) ==
    /\ scores[n].r2 # <<>>
    /\ scores[m].r2 # <<>>
    /\ scores[n].r2[1] > scores[m].r2[1]

CandidateIndex(name) == CHOOSE i \in DOMAIN CandidateNames : CandidateNames[i] = name

\* C18: after a training call that stored a model, the stored model is the
\* candidate with the highest test R2 among rf, gbm, xgb and lightgbm, the
\* first declared of them when several share it, and the stored scores are
\* the scores of that candidate.
C18_BestCandidateStored ==
    (IsTrainCall(last_call) /\ result.kind = "return") =>
        LET sector == last_call[2]
            scores == last_call[6]
            stored == models[sector].name
        IN  /\ \A i \in DOMAIN CandidateNames : ~Higher(scores, CandidateNames[i], stored)
            /\ \A j \in 1..(CandidateIndex(stored) - 1) :
                   \E i \in DOMAIN CandidateNames :
                       Higher(scores, CandidateNames[i], CandidateNames[j])
            /\ model_scores[sector] = scores[stored]
            /\ result.value.best_model = stored

\* gbm and lightgbm share the highest score, rf and xgb are below: gbm is
\* stored
C18_Witness ==
    /\ IsTrainCall(last_call)
    /\ result.kind = "return"
    /\ last_call[6]["rf"].r2 = <<0>>
    /\ last_call[6]["gbm"].r2 = <<1>>
    /\ last_call[6]["xgb"].r2 = <<0>>
    /\ last_call[6]["lightgbm"].r2 = <<1>>
    /\ models[last_call[2]].name = "gbm"

\* C19: a training call on fewer than 2 rows, or on targets that are all
\* equal, fails and leaves the model, scaler, scores and feature importance
\* of the sector as they were.
C19_DegenerateTrainingFails ==
    [][(IsTrainCall(last_call') /\ calls' # calls
          /\ (last_call'[3] < 2 \/ last_call'[5])) =>
           /\ result'.kind = "raise"
           /\ models' = models
           /\ scalers' = scalers
           /\ model_scores' = model_scores
           /\ feature_importance' = feature_importance]_vars

\* C20: a prediction that runs while the sector is being trained never sees
\* a half-updated entry - where it finds a model it finds a scaler, and the
\* model and the scaler it works with were stored by the same training call.
C20_ModelAndScalerOfOneCall ==
    "predict" \in DOMAIN frames =>
        /\ frames["predict"].pc = "read_scaler" =>
               frames["predict"].sector \in DOMAIN scalers
        /\ frames["predict"].pc = "predict" =>
               frames["predict"].model.call = frames["predict"].scaler.call

\* the tables after a call made on its own
AfterCall(store, call) ==
    IF call[1] = "record_prediction"
    THEN [predictions |-> Insert(store.predictions,
                                 NewPrediction(call[2], call[3], call[4], call[5])),
          sector_performance |-> store.sector_performance]
    ELSE [predictions |-> UpdatePredictions(store.predictions, call[2], call[3], call[4]),
          sector_performance |-> UpdatePerformance(store.sector_performance,
                                                   call[2], call[3], call[4])]

EmptyStore == [predictions |-> <<>>, sector_performance |-> <<>>]

\* C21: when the calls of both threads have finished, predictions and
\* sector_performance hold what one of the two serial orders of the same
\* calls gives.
C21_SomeSerialOrder ==
    (\A t \in Threads : t \in DOMAIN frames /\ frames[t].pc = "done") =>
        LET store == [predictions |-> predictions,
                      sector_performance |-> sector_performance]
            first == frames["t1"].call
            second == frames["t2"].call
        IN  \/ store = AfterCall(AfterCall(EmptyStore, first), second)
            \/ store = AfterCall(AfterCall(EmptyStore, second), first)

IsTrainAllCall(call) == call[1] = "train_all_sector_samples"

\* C22: in a batch, every sector whose own training does not fail is
\* trained whatever happens to the others - its model file is written -
\* and the call returns the training results of these sectors.
C22_FailureKeepsTheOthers ==
    IsTrainAllCall(last_call) =>
        \A i \in DOMAIN last_call[2] :
            LET sector == last_call[2][i][1]
                features_df == last_call[2][i][2]
            IN  ~fit_raises(features_df.rows, features_df.cols) =>
                    /\ model_path(sector) \in DOMAIN model_files
                    /\ result.kind = "return"
                    /\ sector \in DOMAIN result.value

\* the entries of a sector in a predictor
EntriesOf(predictor, sector) ==
    <<Get(predictor.models, sector), Get(predictor.scalers, sector),
      Get(predictor.model_scores, sector), Get(predictor.feature_importance, sector)>>

\* C23: for a trained sector, saving it and loading the file - into a new
\* predictor, into the same one, or into one where the sector has been
\* trained again since - gives the model, scaler, scores and feature
\* importance that were saved, and the same prediction for every feature
\* matrix.
C23_SaveLoadRoundTrip ==
    \A sector \in Sectors :
        (sector \in DOMAIN models /\ models[sector] # None) =>
            \A now \in Dates :
                LET before == CurrentPredictor
                    file == joblib_dump(save_data_of(before, sector, now))
                    retrained == predictor_after_training(before, sector, calls + 1, 0,
                                                          EqualScores(NaN), 0)
                IN  \A target \in {NewPredictor, before, retrained} :
                        LET after == load_into(target, sector, file)
                        IN  /\ EntriesOf(after, sector) = EntriesOf(before, sector)
                            /\ \A features_df \in FeatureShapes :
                                   predicted_value_of(after, sector, features_df)
                                     = predicted_value_of(before, sector, features_df)

\* two trainings have been made and the store holds sector A alone, with the
\* model and the scaler of the first one: loading the file has put them back
\* over those of the second training, or into a new predictor
C23_Witness ==
    /\ last_call = <<"load_model", "A">>
    /\ calls = 2
    /\ DOMAIN models = {"A"}
    /\ "A" \in DOMAIN models
    /\ models["A"] # None
    /\ models["A"].call = 1
    /\ scalers["A"] # None
    /\ scalers["A"].call = 1
    /\ model_path("A") \in DOMAIN model_files
    /\ model_files[model_path("A")] = joblib_dump(save_data_of(CurrentPredictor, "A", 1))

IsPrepareCall(call) == call[1] = "prepare_features"

\* C24: prepare_features returns a feature matrix with one row for every
\* instrument whose series has rows, none for an empty series, and a target
\* for every row.
C24_OneRowPerInstrument ==
    IsPrepareCall(last_call) =>
        LET with_rows == {i \in DOMAIN last_call[2] : last_call[2][i][2] > 0}
        IN  /\ result.kind = "return"
            /\ result.value.features_df.rows = Cardinality(with_rows)
            /\ Len(result.value.targets_series) = Cardinality(with_rows)

IsDirectionCall(call) == call[1] = "_calculate_direction_accuracy"

\* the sign with three values
ThreeValuedSign(x) == IF x > 0 THEN 1 ELSE IF x < 0 THEN -1 ELSE 0

\* C25: the direction accuracy is the share of the rows in which the
\* three-valued signs of the predicted and the actual value are equal; it
\* is 0.5 for actual [1, -1, 1, -1] and predicted [1, -1, -1, 1].
C25_ShareOfEqualSigns ==
    IsDirectionCall(last_call) =>
        LET y_true == last_call[2]
            y_pred == last_call[3]
            equal == {i \in DOMAIN y_true :
                         ThreeValuedSign(y_true[i]) = ThreeValuedSign(y_pred[i])}
        IN  /\ result.kind = "return"
            /\ result.value.den = Len(y_true)
            /\ result.value.num = Cardinality(equal)
            /\ (y_true = <<1, -1, 1, -1>> /\ y_pred = <<1, -1, -1, 1>>) =>
                   2 * result.value.num = result.value.den

\* the example of the unit test has been scored
C25_Witness ==
    /\ last_call = <<"_calculate_direction_accuracy", <<1, -1, 1, -1>>, <<1, -1, -1, 1>>>>
    /\ result = Return(Fraction(2, 4))

IsSentimentCall(call) == call[1] = "_calculate_market_sentiment"

\* C26: an average change above 2 with at least 0.7 of the sectors rising
\* is a strong rise, an average change below -2 with at most 0.3 of them
\* rising is a strong fall, and an average change of 0.5 with 6 of 10
\* rising is a mild rise.
C26_InclusiveRatioBounds ==
    IsSentimentCall(last_call) =>
        LET avg_change_pct10 == last_call[2]
            rising_count == last_call[3]
            total_count == last_call[4]
        IN  /\ (avg_change_pct10 > 20 /\ total_count > 0
                  /\ 10 * rising_count >= 7 * total_count) =>
                   result.value = "strong_rise"
            /\ (avg_change_pct10 < -20 /\ total_count > 0
                  /\ 10 * rising_count <= 3 * total_count) =>
                   result.value = "strong_fall"
            /\ (avg_change_pct10 = 5 /\ rising_count = 6 /\ total_count = 10) =>
                   result.value = "mild_rise"

\* C28: no sector_performance record is flagged both top_gainer and
\* top_loser, whatever resolve calls have been made.
C28_NeverGainerAndLoser ==
    \A i \in DOMAIN sector_performance :
        ~(sector_performance[i].top_gainer /\ sector_performance[i].top_loser)


\* C29: in a sector report the positive-correct and the negative-correct
\* records together are as many as the window's Resolved records whose
\* is_correct is true, also when a predicted or an actual change is 0.
C29_CorrectSplitsBySign ==
    (IsReportCall(last_call) /\ result.kind = "return" /\ "sector" \in DOMAIN result.value) =>
        LET rows == resolved_of_sector(predictions, last_call[2],
                                       last_call[4] - last_call[3], last_call[4])
            correct == {i \in DOMAIN rows : rows[i].is_correct = <<TRUE>>}
        IN  positive_correct(rows) + negative_correct(rows) = Cardinality(correct)

\* at most one monitoring loop is active
AtMostOneLoop == Cardinality(active_loops) <= 1

\* a loop that exists when stop has been called ends
EveryLoopStops ==
    \A i \in 1..MaxStarts :
        (i \in DOMAIN frames /\ last_call = <<"stop_realtime_monitoring">>)
            ~> (i \in DOMAIN frames /\ frames[i].pc = "done")

\* C30: whatever the sequence of start and stop calls on one collector, at
\* most one monitoring loop is active at any time, and every loop started
\* before a stop call ends after that stop, also when start is called again
\* right after it.
C30_OneLoopAndEveryLoopStops == []AtMostOneLoop /\ EveryLoopStops
====
